---------------------------- MODULE Spec2Model ----------------------------
(***************************************************************************)
(* A model of the php-cs-fixer formatting orchestration engine             *)
(* (src/src/index.ts): the configuration snapshot, the argument builder,   *)
(* format()/fix() with their promise chains, the scratch files, and the    *)
(* keystroke triggers.                                                     *)
(*                                                                         *)
(* Strings of the program are sequences of one-character strings, so that  *)
(* split, prefix tests and concatenation are computed as the code computes *)
(* them.                                                                   *)
(***************************************************************************)
EXTENDS Integers, Sequences, FiniteSets, TLC

VARIABLES
    cfg,        \* the PHPCSFixer instance's settings fields (loadSettings)
    store,      \* the host's configuration store, read by loadSettings
    cfgPending, \* a configuration-change notification is not yet delivered
    disk,       \* the set of config-file paths that exist (fs.existsSync)
    argReq,     \* the last getArgs request made directly, with what it read
    argOut,     \* the argument list that request returned
    isRunning,  \* the module-level flag (line 12)
    calls,      \* every format()/fix() call made so far, in call order
    tmp,        \* the scratch files under os.tmpdir(), by path
    micro,      \* the promise jobs queued for the call being settled
    active,     \* the document of window.activeTextEditor
    buf,        \* that document's text
    cursor,     \* editor.selection.start, as an offset into buf
    cursorStack,\* the host's cursor-undo stack
    hostQ,      \* commands sent to the host and not yet executed, in order
    events      \* the change events delivered so far, each with its trigger

argVars == <<argReq, argOut>>
cfgVars == <<cfg, store, cfgPending, disk>>
engineVars == <<isRunning, calls, tmp, micro>>
editorVars == <<active, buf, cursor, cursorStack, hostQ, events>>
vars == <<cfg, store, cfgPending, disk, argReq, argOut, isRunning, calls, tmp, micro,
          active, buf, cursor, cursorStack, hostQ, events>>

(***************************************************************************)
(* Strings                                                                 *)
(***************************************************************************)
None == <<"<none>">>

StartsWith(s, p) == Len(s) >= Len(p) /\ SubSeq(s, 1, Len(p)) = p

EndsWith(s, p) == Len(s) >= Len(p) /\ SubSeq(s, Len(s) - Len(p) + 1, Len(s)) = p

\* s.split(sep) for a one-character separator: the pieces between separators
RECURSIVE SplitOn(_, _)
SplitOn(s, sep) ==
    IF \A i \in 1..Len(s) : s[i] # sep
    THEN <<s>>
    ELSE LET k == CHOOSE i \in 1..Len(s) :
                      s[i] = sep /\ \A j \in 1..(i - 1) : s[j] # sep
         IN  <<SubSeq(s, 1, k - 1)>> \o SplitOn(SubSeq(s, k + 1, Len(s)), sep)

\* seq.filter((file) => '' !== file)
RECURSIVE DropEmpty(_)
DropEmpty(seq) ==
    IF seq = <<>> THEN <<>>
    ELSE (IF Head(seq) # <<>> THEN <<Head(seq)>> ELSE <<>>) \o DropEmpty(Tail(seq))

\* the least index at which pat occurs in s, or 0
IndexOf(s, pat) ==
    LET hits == {i \in 1..(Len(s) - Len(pat) + 1) : SubSeq(s, i, i + Len(pat) - 1) = pat}
    IN  IF hits = {} THEN 0 ELSE CHOOSE i \in hits : \A j \in hits : i <= j

\* s.replace(pat, rep) for a string pattern: the first occurrence only
ReplaceFirst(s, pat, rep) ==
    LET k == IndexOf(s, pat)
    IN  IF k = 0 THEN s
        ELSE SubSeq(s, 1, k - 1) \o rep \o SubSeq(s, k + Len(pat), Len(s))

(***************************************************************************)
(* Platform facts and literals                                             *)
(***************************************************************************)
TmpDir == <<"/", "t">>                     \* os.tmpdir()
HomeDir == <<"/", "H">>                    \* os.homedir()
VscodeDir == <<"/", ".", "v", "s", "c", "o", "d", "e", "/">>
Slash == <<"/">>
TildeSlash == <<"~", "/">>

\* file.replace(/^~\//, os.homedir() + '/')
ExpandHome(file) ==
    IF StartsWith(file, TildeSlash)
    THEN HomeDir \o Slash \o SubSeq(file, 3, Len(file))
    ELSE file

\* path.isAbsolute(file) on a POSIX host
IsAbsolute(file) == Len(file) > 0 /\ file[1] = "/"

(***************************************************************************)
(* getArgs                                                                 *)
(***************************************************************************)
\* getActiveWorkspacePath(uri): the workspace folder of a file: uri, or None
getActiveWorkspacePath(uri) ==
    IF uri.scheme = "file" /\ uri.folder # None THEN uri.folder ELSE None

\* lines 90-93: split on ';', drop the empty names, expand ~/
ConfigFiles(config) ==
    LET names == DropEmpty(SplitOn(config, ";"))
    IN  [i \in 1..Len(names) |-> ExpandHome(names[i])]

\* lines 96-99
SearchPaths(rootPath) ==
    IF rootPath # None THEN <<rootPath \o VscodeDir, rootPath \o Slash>> ELSE <<>>

\* lines 101-110: the full candidate list, in scan order
RECURSIVE CandidateFiles(_, _)
CandidateFiles(configFiles, searchPaths) ==
    IF configFiles = <<>> THEN <<>>
    ELSE LET file == Head(configFiles)
         IN  (IF IsAbsolute(file)
              THEN <<file>>
              ELSE [i \in 1..Len(searchPaths) |-> searchPaths[i] \o file])
             \o CandidateFiles(Tail(configFiles), searchPaths)

\* lines 112-119: the first candidate that exists, or None
FirstExistingAlt(files, existing) ==
    IF \E i \in 1..Len(files) : files[i] \in existing
    THEN LET k == CHOOSE i \in 1..Len(files) :
                      files[i] \in existing /\ \A j \in (i + 1)..Len(files) : files[j] \notin existing
         IN  files[k]
    ELSE None

FirstExisting(files, existing) ==
    IF \E i \in 1..Len(files) : files[i] \in existing
    THEN LET k == CHOOSE i \in 1..Len(files) :
                      files[i] \in existing /\ \A j \in 1..(i - 1) : files[j] \notin existing
         IN  files[k]
    ELSE None

\* lines 87-120: the config file chosen, or None (useConfig = false)
ChosenConfig(c, uri, existing) ==
    IF Len(c.config) > 0
    THEN FirstExisting(CandidateFiles(ConfigFiles(c.config),
                                      SearchPaths(getActiveWorkspacePath(uri))),
                       existing)
    ELSE None

Arg(opt, val) == [opt |-> opt, val |-> val]

\* lines 121-123 with the truthiness test dropped
RulesArgsAlt(c, chosen) ==
    IF chosen = None THEN <<Arg("--rules=", c.rules)>> ELSE <<>>

\* lines 121-123: if (!useConfig && this.rules)
RulesArgs(c, chosen) ==
    IF chosen = None /\ c.rules # <<>> THEN <<Arg("--rules=", c.rules)>> ELSE <<>>

\* getArgs(uri, filePath): an argument is a literal followed by a computed string
getArgs(c, uri, filePathOrNull, existing) ==
    LET filePath == IF filePathOrNull # None /\ filePathOrNull # <<>>
                    THEN filePathOrNull ELSE uri.fsPath
        chosen == ChosenConfig(c, uri, existing)
    IN  (IF c.pharPath # None THEN <<Arg("", c.pharPath)>> ELSE <<>>)
        \o <<Arg("fix", <<>>), Arg("--using-cache=no", <<>>), Arg("--format=json", <<>>)>>
        \o (IF chosen # None THEN <<Arg("--config=", chosen)>> ELSE <<>>)
        \o RulesArgs(c, chosen)
        \o (IF c.allowRisky THEN <<Arg("--allow-risky=yes", <<>>)>> ELSE <<>>)
        \o (IF StartsWith(filePath, TmpDir)
            THEN <<Arg("--path-mode=override", <<>>)>>
            ELSE <<Arg("--path-mode=", c.pathMode)>>)
        \o <<Arg("", filePath)>>

(***************************************************************************)
(* loadSettings                                                            *)
(***************************************************************************)
ExtensionDir == <<"/", "E">>               \* __dirname
ExtensionPathToken ==
    <<"$", "{", "e", "x", "t", "e", "n", "s", "i", "o", "n", "P", "a", "t", "h", "}">>
DotPhar == <<".", "p", "h", "a", "r">>
Php == <<"p", "h", "p">>
BundledPhar == ExtensionPathToken \o <<"/", "p">> \o DotPhar   \* line 458

\* the letters the flag /i folds
UpperLetters ==
    <<"A", "B", "C", "D", "E", "F", "G", "H", "I", "J", "K", "L", "M", "N",
      "O", "P", "Q", "R", "S", "T", "U", "V", "W", "X", "Y", "Z">>
LowerLetters ==
    <<"a", "b", "c", "d", "e", "f", "g", "h", "i", "j", "k", "l", "m", "n",
      "o", "p", "q", "r", "s", "t", "u", "v", "w", "x", "y", "z">>
CaseFold ==
    [ch \in {UpperLetters[i] : i \in DOMAIN UpperLetters} |->
        LowerLetters[CHOOSE i \in DOMAIN UpperLetters : UpperLetters[i] = ch]]

\* a character as the flag /i compares it
LowerCase(ch) == IF ch \in DOMAIN CaseFold THEN CaseFold[ch] ELSE ch

\* s.replace(/^php[^ ]* /i, ''): a leading interpreter word and its blank
StripInterpreter(s) ==
    LET blanks == {i \in 4..Len(s) : s[i] = " "}
    IN  IF /\ Len(s) >= 3
           /\ [i \in 1..3 |-> LowerCase(s[i])] = Php
           /\ blanks # {}
        THEN SubSeq(s, (CHOOSE i \in blanks : \A j \in blanks : i <= j) + 1, Len(s))
        ELSE s

\* lines 27-30: the configured executable, with the Windows override
ConfiguredExecutable(st) ==
    IF st.platform = "win32" /\ Len(st.executablePathWindows) > 0
    THEN st.executablePathWindows
    ELSE st.executablePath

\* lines 27-32: the executable path with its tokens substituted
ResolveExecutable(st) ==
    ExpandHome(ReplaceFirst(ConfiguredExecutable(st), ExtensionPathToken, ExtensionDir))

\* loadSettings() with line 46 left out: the archive is split off and the
\* executable stays what the setting holds
loadSettingsAlt(st) ==
    LET exe == ResolveExecutable(st)
    IN  [onsave |-> st.onsave,
         autoFixByBracket |-> st.autoFixByBracket,
         autoFixBySemicolon |-> st.autoFixBySemicolon,
         executablePath |-> exe,
         pharPath |-> IF EndsWith(exe, DotPhar) THEN StripInterpreter(exe) ELSE None,
         rules |-> st.rules.str,
         config |-> st.config,
         allowRisky |-> st.allowRisky,
         pathMode |-> st.pathMode,
         exclude |-> st.exclude,
         editorFormatOnSave |-> st.formatOnSave]

\* loadSettings(): every field assigned from the store in one synchronous call
loadSettings(st) ==
    LET exe == ResolveExecutable(st)
        phar == EndsWith(exe, DotPhar)
    IN  [onsave |-> st.onsave,
         autoFixByBracket |-> st.autoFixByBracket,
         autoFixBySemicolon |-> st.autoFixBySemicolon,
         executablePath |->
             IF phar
             THEN (IF st.phpExe = None \/ st.phpExe = <<>> THEN Php ELSE st.phpExe)
             ELSE exe,
         pharPath |-> IF phar THEN StripInterpreter(exe) ELSE None,
         rules |-> st.rules.str,
         config |-> st.config,
         allowRisky |-> st.allowRisky,
         pathMode |-> st.pathMode,
         exclude |-> st.exclude,
         editorFormatOnSave |-> st.formatOnSave]

WorkspaceTokens ==
    {<<"$", "{", "w", "o", "r", "k", "s", "p", "a", "c", "e", "R", "o", "o", "t", "}">>,
     <<"$", "{", "w", "o", "r", "k", "s", "p", "a", "c", "e", "F", "o", "l", "d", "e",
       "r", "}">>}

\* getRealExecutablePath(uri), with a workspace open whose first folder is
\* first: a leading ${workspaceRoot} or ${workspaceFolder} becomes the
\* document's workspace folder, or the first folder
getRealExecutablePath(c, uri, first) ==
    LET root == IF getActiveWorkspacePath(uri) # None THEN getActiveWorkspacePath(uri)
                ELSE first
        hit == {t \in WorkspaceTokens : StartsWith(c.executablePath, t)}
    IN  IF hit = {} THEN c.executablePath
        ELSE root \o SubSeq(c.executablePath, Len(CHOOSE t \in hit : TRUE) + 1,
                            Len(c.executablePath))

(***************************************************************************)
(* Documents                                                               *)
(***************************************************************************)
Docs == {"a", "x", "t", "u"}

Workspace == <<"/", "w">>

\* the TextDocument facts the code reads: languageId, uri, isUntitled
DocOf(d) ==
    CASE d = "a" -> [languageId |-> "php", scheme |-> "file", isUntitled |-> FALSE,
                     fsPath |-> <<"/", "w", "/", "a">>, folder |-> Workspace]
      [] d = "x" -> [languageId |-> "php", scheme |-> "file", isUntitled |-> FALSE,
                     fsPath |-> <<"/", "w", "/", "v", "/", "x">>, folder |-> Workspace]
      [] d = "t" -> [languageId |-> "plaintext", scheme |-> "file", isUntitled |-> FALSE,
                     fsPath |-> <<"/", "w", "/", "t">>, folder |-> Workspace]
      [] d = "u" -> [languageId |-> "php", scheme |-> "untitled", isUntitled |-> TRUE,
                     fsPath |-> <<"v", "/", "u">>, folder |-> None]
      [] d = "y" -> [languageId |-> "php", scheme |-> "file", isUntitled |-> FALSE,
                     fsPath |-> <<"/", "t", "y", "/", "y">>, folder |-> None]
      [] d = "w" -> [languageId |-> "", scheme |-> "file", isUntitled |-> FALSE,
                     fsPath |-> Workspace, folder |-> Workspace]

\* anymatch(globs, path), with a glob standing for the path fragment it matches
AnyMatch(globs, path) == \E g \in globs : IndexOf(path, g) > 0

\* isExcluded(document), lines 444-449
isExcluded(c, d) ==
    IF c.exclude # {} /\ DocOf(d).scheme = "file" /\ ~DocOf(d).isUntitled
    THEN AnyMatch(c.exclude, DocOf(d).fsPath)
    ELSE FALSE

(***************************************************************************)
(* Scratch files                                                           *)
(***************************************************************************)
\* uri.fsPath.replace(/^.*[\\/]/, '/'): everything up to the last slash
ScratchName(fsPath) ==
    LET slashes == {i \in 1..Len(fsPath) : fsPath[i] = "/"}
    IN  IF slashes = {} THEN fsPath
        ELSE Slash \o SubSeq(fsPath, (CHOOSE i \in slashes : \A j \in slashes : j <= i) + 1,
                             Len(fsPath))

PartialPath == TmpDir \o <<"/", "p">>      \* TmpDir + '/php-cs-fixer-partial.php'

\* lines 145-150
ScratchPath(d, isPartial) ==
    IF isPartial THEN PartialPath ELSE TmpDir \o ScratchName(DocOf(d).fsPath)

ScratchPaths == {ScratchPath(d, p) : d \in Docs, p \in BOOLEAN}

NoFile == [exists |-> FALSE, content |-> <<>>, writer |-> 0]

(***************************************************************************)
(* The external process                                                    *)
(***************************************************************************)
\* what the fixer may rewrite a file to: a final newline, a blank before "{"
RECURSIVE SpaceBraces(_)
SpaceBraces(text) ==
    IF Len(text) < 2 THEN text
    ELSE IF text[1] \notin {" ", "\n"} /\ text[2] = "{"
         THEN <<text[1], " ">> \o SpaceBraces(Tail(text))
         ELSE <<text[1]>> \o SpaceBraces(Tail(text))

\* a fixer that rewrites a constant condition: if(1) becomes if(true)
IfOneText == <<"i", "f", "(", "1", ")">>
IfTrueText == <<"i", "f", "(", "t", "r", "u", "e", ")">>
RewriteCondition(text) == ReplaceFirst(text, IfOneText, IfTrueText)

FixOutputs(text) ==
    {text \o <<"\n">>, SpaceBraces(text), RewriteCondition(text)} \ {text}

FatalLine == "PHP Fatal error:  Uncaught Error: boom"
StderrSamples ==
    {<<>>, <<"Loaded config default.", "">>,
     <<"Loaded config default.", "Files that were not fixed due to errors:">>}

\* what runAsync settles with: {stdout, stderr} or an error carrying code/exitCode
Ok(stdout, stderr) ==
    [kind |-> "ok", code |-> "", exitCode |-> 0, stdout |-> stdout, stderr |-> stderr]
Failure(exitCode, stdout, stderr) ==
    [kind |-> "error", code |-> "", exitCode |-> exitCode, stdout |-> stdout,
     stderr |-> stderr]
SpawnENOENT ==
    [kind |-> "error", code |-> "ENOENT", exitCode |-> 0, stdout |-> "", stderr |-> <<>>]
\* an exception raised inside the then callback
Thrown(code) ==
    [kind |-> "error", code |-> code, exitCode |-> 0, stdout |-> "", stderr |-> <<>>]
NoErr == [kind |-> "none", code |-> "", exitCode |-> 0, stdout |-> "", stderr |-> <<>>]

\* stdout: a manifest with a changed file, with none, JSON null, or JSON
\* without "files"
Outcomes ==
    {Ok("files1", <<>>), Ok("noFiles", <<>>), Ok("null", <<>>)}
    \cup {Ok("files0", e) : e \in StderrSamples}
    \cup {Failure(1, "", <<>>), Failure(1, "boom", <<>>),
          Failure(16, "boom", <<FatalLine>>), Failure(32, "", <<>>),
          Failure(255, "", <<"x", FatalLine>>), Failure(2, "", <<>>)}
    \cup {SpawnENOENT}

\* stderr.split(/\r?\n/) without the filter
NonEmptyLinesAlt(lines) == lines

\* stderr.split(/\r?\n/).filter(Boolean)
RECURSIVE NonEmptyLines(_)
NonEmptyLines(lines) ==
    IF lines = <<>> THEN <<>>
    ELSE (IF Head(lines) # "" THEN <<Head(lines)>> ELSE <<>>) \o NonEmptyLines(Tail(lines))

\* err.stderr?.match(/PHP (?:Fatal|Parse) error:\s*Uncaught Error:[^\r?\n]+/)?.[0]
FatalMatch(lines) ==
    IF \E i \in 1..Len(lines) : lines[i] = FatalLine THEN FatalLine ELSE ""

\* lines 192-198: msgs[err.exitCode], "undefined" for a code the table lacks
ExitMessageAlt(err) ==
    CASE err.exitCode \in {1, 16} ->
            IF err.stdout # "" THEN err.stdout
            ELSE "General error (or PHP minimal requirement not matched)."
      [] err.exitCode = 32 -> "Configuration error of a Fixer."
      [] err.exitCode = 64 -> "Exception raised within the application."
      [] err.exitCode = 255 ->
            IF FatalMatch(err.stderr) # "" THEN FatalMatch(err.stderr)
            ELSE "PHP Fatal error, click to show output."
      [] OTHER -> "undefined"

ExitMessage(err) ==
    CASE err.exitCode = 1 ->
            IF err.stdout # "" THEN err.stdout
            ELSE "General error (or PHP minimal requirement not matched)."
      [] err.exitCode = 16 -> "Configuration error of the application."
      [] err.exitCode = 32 -> "Configuration error of a Fixer."
      [] err.exitCode = 64 -> "Exception raised within the application."
      [] err.exitCode = 255 ->
            IF FatalMatch(err.stderr) # "" THEN FatalMatch(err.stderr)
            ELSE "PHP Fatal error, click to show output."
      [] OTHER -> "undefined"

(***************************************************************************)
(* format() and fix()                                                      *)
(***************************************************************************)
MaxCalls == 2

Idle == [c |-> 0, jobs |-> <<>>, err |-> NoErr]

CallIds == 1..Len(calls)

\* the record of one format()/fix() call, with the executable and the
\* arguments handed to runAsync (lines 154-161 and 216-222)
NewCall(kind, origin, d, isDiff, isPartial, text, started) ==
    [kind |-> kind, origin |-> origin, doc |-> d, isDiff |-> isDiff,
     isPartial |-> isPartial,
     path |-> IF kind = "fix" THEN DocOf(d).fsPath ELSE ScratchPath(d, isPartial),
     text |-> text,
     exe |-> IF started THEN getRealExecutablePath(cfg, DocOf(d), Workspace) ELSE None,
     args |-> IF started
              THEN getArgs(cfg, DocOf(d),
                           IF kind = "fix" THEN None ELSE ScratchPath(d, isPartial), disk)
              ELSE <<>>,
     phase |-> IF started THEN "running" ELSE "threw",
     starts |-> IF started THEN 1 ELSE 0,
     out |-> NoErr,
     settled |-> "pending", value |-> None, result |-> "",
     shown |-> IF isPartial THEN <<>>
               ELSE IF kind = "fix" THEN <<"fixing">> ELSE <<"formatting">>,
     dialog |-> FALSE,
     unlink |-> "none"]

\* format(text, uri, isDiff, isPartial) up to the return of the promise:
\* lines 141-161.  fs.writeFileSync either writes or throws; when it throws
\* nothing after line 152 runs.
FormatEntry(text, d, isDiff, isPartial, origin, writeOk) ==
    /\ isRunning' = TRUE
    /\ tmp' = IF writeOk
              THEN [tmp EXCEPT ![ScratchPath(d, isPartial)] =
                        [exists |-> TRUE, content |-> text, writer |-> Len(calls) + 1]]
              ELSE tmp
    /\ calls' = Append(calls, NewCall("format", origin, d, isDiff, isPartial, text, writeOk))

\* fix(uri) up to the call of runAsync: lines 212-222
FixEntry(d) ==
    /\ isRunning' = TRUE
    /\ calls' = Append(calls, NewCall("fix", "fix", d, FALSE, FALSE, <<>>, TRUE))
    /\ UNCHANGED tmp

\* the scratch file of call r as it is now (fix() has none)
ScratchOf(r) == IF r.kind = "format" THEN tmp[r.path] ELSE NoFile

\* the process rewrites the file it was given
ProcMutate(c, fixed) ==
    /\ micro = Idle
    /\ calls[c].kind = "format"
    /\ calls[c].phase = "running"
    /\ ScratchOf(calls[c]).exists
    /\ fixed \in FixOutputs(ScratchOf(calls[c]).content)
    /\ tmp' = [tmp EXCEPT ![calls[c].path].content = fixed]
    /\ calls' = [calls EXCEPT ![c].phase = "mutated"]
    /\ UNCHANGED <<isRunning, micro, cfgVars, argVars, editorVars>>

\* the process ends (or could not be spawned) and runAsync settles: the first
\* promise job of the chain is queued
ProcExit(c, o) ==
    /\ micro = Idle
    /\ calls[c].phase \in {"running", "mutated"}
    /\ o \in Outcomes
    /\ (calls[c].phase = "mutated") <=> (o.kind = "ok" /\ o.stdout = "files1")
    /\ calls' = [calls EXCEPT ![c].phase = "exited", ![c].out = o]
    /\ micro' = [c |-> c, jobs |-> IF o.kind = "ok" THEN <<"then">> ELSE <<"catch">>,
                 err |-> IF o.kind = "ok" THEN NoErr ELSE o]
    /\ UNCHANGED <<isRunning, tmp, cfgVars, argVars, editorVars>>

\* line 175 with the limit one higher
ToolReportedFailureAlt(lines) == Len(lines) > 2

\* line 175: lines.length > 1
ToolReportedFailure(lines) == Len(lines) > 1

\* lines 162-183 (format) and 225-227 (fix): what the then callback does, as
\* [settled, value, status, jobs, err]; file is the scratch file as it is now
ThenEffect(r, file) ==
    LET resolveWith(v) ==
            [settled |-> "resolved", value |-> v, status |-> <<>>,
             jobs |-> <<"callerThen", "finally">>, err |-> NoErr]
        throw(code) ==
            [settled |-> "pending", value |-> None, status |-> <<>>,
             jobs |-> <<"catch">>, err |-> Thrown(code)]
        lines == NonEmptyLines(r.out.stderr)
    IN  CASE r.kind = "fix" ->
                [settled |-> "pending", value |-> None, status |-> <<>>,
                 jobs |-> <<"finally">>, err |-> NoErr]
          [] r.kind = "format" /\ r.isDiff -> resolveWith(r.path)
          [] r.kind = "format" /\ ~r.isDiff /\ r.out.stdout = "noFiles" ->
                throw("")
          [] r.kind = "format" /\ ~r.isDiff /\ r.out.stdout = "files1" ->
                IF file.exists THEN resolveWith(file.content) ELSE throw("ENOENT")
          [] OTHER ->
                IF ToolReportedFailure(lines)
                THEN [settled |-> "rejected", value |-> None,
                      status |-> IF r.isPartial THEN <<>> ELSE <<lines[2]>>,
                      jobs |-> <<"callerCatch", "finally">>, err |-> NoErr]
                ELSE resolveWith(r.text)

ThenJob ==
    /\ micro.jobs # <<>> /\ Head(micro.jobs) = "then"
    /\ LET c == micro.c
           e == ThenEffect(calls[c], ScratchOf(calls[c]))
       IN  /\ calls' = [calls EXCEPT ![c].settled = e.settled, ![c].value = e.value,
                                     ![c].shown = @ \o e.status]
           /\ micro' = [c |-> c, jobs |-> e.jobs, err |-> e.err]
    /\ UNCHANGED <<isRunning, tmp, cfgVars, argVars, editorVars>>

\* errorTip(): the dialog, and the stored executablePath reset to the archive
ErrorTipStore(st) == [st EXCEPT !.executablePath = BundledPhar]

\* lines 184-201 (format) and 228-233 (fix): the status texts the catch
\* callback shows
CatchStatus(r, err) ==
    IF r.kind = "fix" THEN <<"failed">>
    ELSE IF r.isPartial THEN <<>>
    ELSE <<"failed">> \o (IF err.code # "ENOENT" /\ err.exitCode # 0
                          THEN <<ExitMessage(err)>> ELSE <<>>)

\* whether the catch callback calls errorTip()
CatchTipsAlt(r, err) == err.code = "ENOENT" /\ ~r.isPartial

CatchTips(r, err) == err.code = "ENOENT"

CatchJob ==
    /\ micro.jobs # <<>> /\ Head(micro.jobs) = "catch"
    /\ LET c == micro.c
           r == calls[c]
           tip == CatchTips(r, micro.err)
       IN  /\ calls' = [calls EXCEPT
                  ![c].settled = IF r.kind = "format" THEN "rejected" ELSE @,
                  ![c].shown = @ \o CatchStatus(r, micro.err),
                  ![c].dialog = @ \/ tip]
           /\ store' = IF tip THEN ErrorTipStore(store) ELSE store
           /\ cfgPending' = (cfgPending \/ tip)
           /\ micro' = [c |-> c,
                        jobs |-> IF r.kind = "format" THEN <<"finally", "callerCatch">>
                                 ELSE <<"finally">>,
                        err |-> NoErr]
    /\ UNCHANGED <<isRunning, tmp, cfg, disk, argVars, editorVars>>

\* whether the finally callback asks for the scratch file's deletion
FinallyUnlinks(r) == r.kind = "format" /\ ~r.isDiff

Finish(c, jobs) == IF jobs = <<>> THEN Idle ELSE [c |-> c, jobs |-> jobs, err |-> NoErr]

\* lines 202-207 and 234-236
FinallyJob ==
    /\ micro.jobs # <<>> /\ Head(micro.jobs) = "finally"
    /\ LET c == micro.c
       IN  /\ isRunning' = FALSE
           /\ calls' = [calls EXCEPT
                  ![c].unlink = IF FinallyUnlinks(calls[c]) THEN "pending" ELSE @,
                  ![c].phase = IF Tail(micro.jobs) = <<>> THEN "done" ELSE @]
           /\ micro' = Finish(c, Tail(micro.jobs))
    /\ UNCHANGED <<tmp, cfgVars, argVars, editorVars>>

\* fs.unlink(filePath, function (err) {}) completes
UnlinkDone(c) ==
    /\ micro = Idle
    /\ calls[c].unlink = "pending"
    /\ tmp' = [tmp EXCEPT ![calls[c].path] = NoFile]
    /\ calls' = [calls EXCEPT ![c].unlink = "done"]
    /\ UNCHANGED <<isRunning, micro, cfgVars, argVars, editorVars>>

(***************************************************************************)
(* The callers of format(): providers, commands                            *)
(***************************************************************************)
PhpTag == <<"<", "?", "p", "h", "p", "\n">>

Whitespace == {" ", "\n", "\t", "\r"}

\* originalText.search(/^\s*<\?php/i) == -1, over the model's alphabet
LacksPhpTag(text) ==
    LET lead == {i \in 0..Len(text) : \A j \in 1..i : text[j] \in Whitespace}
        k == CHOOSE i \in lead : \A j \in lead : j <= i
    IN  ~(/\ Len(text) >= k + 5
          /\ [i \in 1..5 |-> LowerCase(text[k + i])] = SubSeq(PhpTag, 1, 5))

\* text.replace(/^<\?php\r?\n/, '')
StripPhpTag(text) ==
    IF StartsWith(text, PhpTag) THEN SubSeq(text, Len(PhpTag) + 1, Len(text))
    ELSE IF StartsWith(text, <<"<", "?", "p", "h", "p", "\r", "\n">>)
         THEN SubSeq(text, 8, Len(text))
         ELSE text

\* the callers' success handlers: lines 389-395, 427-436, 241-243
CallerThenResult(r) ==
    CASE r.origin \in {"provider", "onsave", "command"} ->
            IF r.value # <<>> /\ r.value # r.text THEN "edits" ELSE "noEdits"
      [] r.origin \in {"range", "rangeTagged"} ->
            LET text == IF r.origin = "rangeTagged" THEN StripPhpTag(r.value)
                        ELSE r.value
            IN  IF text # <<>> /\ text # r.text THEN "edits" ELSE "noEdits"
      [] r.origin = "diff" -> "diffShown"
      [] OTHER -> "handled"

\* the success handler of the caller; for the php-cs-fixer.fix command the
\* handler of lines 502-506 follows and sends the edit to the host, for the
\* registered providers and format on save the host is handed the edits
CallerThenJob ==
    /\ micro.jobs # <<>> /\ Head(micro.jobs) = "callerThen"
    /\ calls[micro.c].origin \notin {"bracket", "semicolon"}
    /\ calls' = [calls EXCEPT ![micro.c].result = CallerThenResult(calls[micro.c])]
    /\ hostQ' = IF /\ calls[micro.c].origin = "command"
                   /\ CallerThenResult(calls[micro.c]) = "edits"
                THEN Append(hostQ, [cmd |-> "edit", t |-> 0, c |-> micro.c])
                ELSE hostQ
    /\ micro' = Finish(micro.c, Tail(micro.jobs))
    /\ UNCHANGED <<isRunning, tmp, cfgVars, argVars, active, buf, cursor, cursorStack,
                   events>>

\* the callers' failure handlers: console.log / reject()
CallerCatchJob ==
    /\ micro.jobs # <<>> /\ Head(micro.jobs) = "callerCatch"
    /\ calls' = [calls EXCEPT
           ![micro.c].result = "rejected",
           ![micro.c].phase = IF Tail(micro.jobs) = <<>> THEN "done" ELSE @]
    /\ micro' = Finish(micro.c, Tail(micro.jobs))
    /\ UNCHANGED <<isRunning, tmp, cfgVars, argVars, editorVars>>

\* formattingProvider(document, options), reached from the registered
\* provider, from onWillSaveTextDocument and from the php-cs-fixer.fix command
FormattingProvider(via, writeOk) ==
    /\ micro = Idle
    /\ Len(calls) < MaxCalls
    /\ via \in {"provider", "onsave", "command"}
    /\ DocOf(active).languageId = "php"
    /\ via = "onsave" => (cfg.onsave /\ cfg.editorFormatOnSave = FALSE)
    /\ ~isExcluded(cfg, active)
    /\ FormatEntry(buf, active, FALSE, FALSE, via, writeOk)
    /\ UNCHANGED <<micro, cfgVars, argVars, editorVars>>

\* rangeFormattingProvider(document, range) for the range [from, to): the
\* flag is reset (line 411), then a range holding only white space is
\* refused and any other is formatted
RangeFormattingProvider(from, to, writeOk) ==
    /\ micro = Idle
    /\ Len(calls) < MaxCalls
    /\ DocOf(active).languageId = "php"
    /\ ~isExcluded(cfg, active)
    /\ from <= to
    /\ LET originalText == SubSeq(buf, from + 1, to)
       IN  IF \A i \in 1..Len(originalText) : originalText[i] \in Whitespace
           THEN /\ isRunning' = FALSE
                /\ writeOk
                /\ UNCHANGED <<calls, tmp>>
           ELSE IF LacksPhpTag(originalText)
           THEN FormatEntry(PhpTag \o originalText, active, FALSE, FALSE,
                            "rangeTagged", writeOk)
           ELSE FormatEntry(originalText, active, FALSE, FALSE, "range", writeOk)
    /\ UNCHANGED <<micro, cfgVars, argVars, editorVars>>

\* the text each document opens with
InitText(d) ==
    CASE d \in {"a", "t"} -> <<"d", "o", "{", "\n", "a", "b", "=", "1">>
      [] d = "x" -> <<"a", "\n", "{", "\n", "b">>
      [] OTHER -> <<"{", "\n", "b">>

\* what fs.readFileSync(uri.fsPath) can return for the file of document d:
\* the text the document was opened with, or an older one
OlderText == <<"o", "l", "d">>
FileTexts(d) == {InitText(d), OlderText}

\* the handlers of php-cs-fixer.fix2 (lines 554-571) and php-cs-fixer.diff
\* (lines 574-587) work on the Uri they are given, whatever its language,
\* and on the active document, when it is php, if they are given none
CommandTargets == {d \in Docs : DocOf(d).scheme = "file"}

\* the php-cs-fixer.diff command for file f: diff(uri) formats the content
\* of the file, not of the document; when the file cannot be read line 240
\* throws before format() is called and nothing has happened
Diff(f, text, writeOk) ==
    /\ micro = Idle
    /\ Len(calls) < MaxCalls
    /\ f \in CommandTargets
    /\ text \in FileTexts(f)
    /\ FormatEntry(text, f, TRUE, FALSE, "diff", writeOk)
    /\ UNCHANGED <<micro, cfgVars, argVars, editorVars>>

\* the workspace folder as a target of php-cs-fixer.fix2
FolderTarget == "w"

\* the php-cs-fixer.fix2 command for f, a file or a folder (for which the
\* output panel is shown first): fix(uri); when f does not exist line 563
\* throws and nothing has happened
Fix(f) ==
    /\ micro = Idle
    /\ Len(calls) < MaxCalls
    /\ f \in CommandTargets \cup {FolderTarget}
    /\ FixEntry(f)
    /\ UNCHANGED <<micro, cfgVars, argVars, editorVars>>

(***************************************************************************)
(* The document: lines, and the patterns the triggers test                 *)
(***************************************************************************)
\* the offset at which the line holding offset off starts, and where it ends
LineStart(b, off) ==
    LET nl == {i \in 1..off : b[i] = "\n"}
    IN  IF nl = {} THEN 0 ELSE CHOOSE i \in nl : \A j \in nl : j <= i

LineEnd(b, off) ==
    LET nl == {i \in (off + 1)..Len(b) : b[i] = "\n"}
    IN  IF nl = {} THEN Len(b) ELSE (CHOOSE i \in nl : \A j \in nl : i <= j) - 1

\* document.lineAt(position).text and .lineNumber
LineText(b, off) == SubSeq(b, LineStart(b, off) + 1, LineEnd(b, off))

LineNumber(b, off) == Cardinality({i \in 1..off : b[i] = "\n"})

\* document.positionAt(off): a Position is a line and a character in it
PosOf(b, off) == [line |-> LineNumber(b, off), ch |-> off - LineStart(b, off)]

\* the offset at which line n of b starts; beyond the last line, the end of b
LineOffset(b, n) ==
    LET nl == {i \in 1..Len(b) : b[i] = "\n"}
        upTo(i) == Cardinality({j \in nl : j <= i})
    IN  IF n = 0 THEN 0
        ELSE IF n > Cardinality(nl) THEN Len(b)
        ELSE CHOOSE i \in nl : upTo(i) = n

\* document.offsetAt(document.validatePosition(pos)): a position past the
\* last line is the end of the document, one past the end of its line the
\* end of that line
OffsetAt(b, pos) ==
    IF pos.line > LineNumber(b, Len(b)) THEN Len(b)
    ELSE LET ls == LineOffset(b, pos.line)
             le == LineEnd(b, ls)
         IN  IF ls + pos.ch > le THEN le ELSE ls + pos.ch

\* position p is before position q
PosBefore(p, q) == p.line < q.line \/ (p.line = q.line /\ p.ch < q.ch)

\* document.getText(new Range(start, start.translate(0, 1))): the character
\* after start on its line, empty at the end of the line
NextChar(b, off) == IF off < LineEnd(b, off) THEN <<b[off + 1]>> ELSE <<>>

\* s with its trailing white space removed: replace(/\s*$/, '')
RECURSIVE TrimEnd(_)
TrimEnd(s) ==
    IF s # <<>> /\ s[Len(s)] \in Whitespace THEN TrimEnd(SubSeq(s, 1, Len(s) - 1)) ELSE s

\* s with its leading white space removed
RECURSIVE TrimStart(_)
TrimStart(s) == IF s # <<>> /\ s[1] \in Whitespace THEN TrimStart(Tail(s)) ELSE s

\* the leading white space of s
Indent(s) == SubSeq(s, 1, Len(s) - Len(TrimStart(s)))

Lower(s) == [i \in 1..Len(s) |-> LowerCase(s[i])]

\* \w
WordChars ==
    {UpperLetters[i] : i \in DOMAIN UpperLetters}
        \cup {LowerLetters[i] : i \in DOMAIN LowerLetters}
        \cup {"0", "1", "2", "3", "4", "5", "6", "7", "8", "9", "_"}

\* /^\s*\}$/.test(pressedKey)
IsBracketKey(key) ==
    /\ key # <<>>
    /\ key[Len(key)] = "}"
    /\ \A i \in 1..(Len(key) - 1) : key[i] \in Whitespace

\* /^\s*\{\s*$/.test(line.text)
IsBraceOnly(text) == TrimEnd(TrimStart(text)) = <<"{">>

KwParen == {<<"i", "f">>, <<"f", "o", "r">>, <<"f", "o", "r", "e", "a", "c", "h">>,
            <<"w", "h", "i", "l", "e">>, <<"s", "w", "i", "t", "c", "h">>}
KwType == {<<"c", "l", "a", "s", "s">>, <<"t", "r", "a", "i", "t">>,
           <<"i", "n", "t", "e", "r", "f", "a", "c", "e">>}
KwBare == {<<"d", "o">>, <<"t", "r", "y">>}
KwFunction == <<"f", "u", "n", "c", "t", "i", "o", "n">>

\* whether s is /^\s*function\s+\w+$/ or /^\s*function\s*$/, ignoring case
IsFunctionHead(s) ==
    LET t == Lower(TrimStart(s))
        rest == SubSeq(t, Len(KwFunction) + 1, Len(t))
        name == TrimStart(rest)
    IN  /\ StartsWith(t, KwFunction)
        /\ \/ TrimStart(rest) = <<>>
           \/ /\ Len(name) < Len(rest)
              /\ \A i \in 1..Len(name) : name[i] \in WordChars

\* preline.text.search(/(H)\s*$/i) > -1, where H is
\*   (if|for|foreach|while|switch|^\s*function\s+\w+|^\s*function\s*)\s*\(.+?\)
\* | (class|trait|interface)\s+[\w ]+ | do | try
HeaderAtEnd(text) ==
    LET r == TrimEnd(text)
    IN  \/ \E k \in KwBare : EndsWith(Lower(r), k)
        \/ /\ r # <<>> /\ r[Len(r)] = ")"
           /\ \E i \in 1..(Len(r) - 2) :
                 /\ r[i] = "("
                 /\ LET before == TrimEnd(SubSeq(r, 1, i - 1))
                    IN  \/ \E k \in KwParen : EndsWith(Lower(before), k)
                        \/ IsFunctionHead(before)
        \/ \E i \in 1..Len(text) : \E j \in i..Len(text) :
              /\ \A n \in i..j : text[n] \in WordChars \cup {" "}
              /\ \A n \in (j + 1)..Len(text) : text[n] \in Whitespace
              /\ i > 1 /\ text[i - 1] \in Whitespace
              /\ \E k \in KwType : EndsWith(Lower(TrimEnd(SubSeq(text, 1, i - 1))), k)

\* line.text.search(/(...)\s*\{\s*$/i) > -1
HeaderBeforeBrace(text) ==
    LET t == TrimEnd(text)
    IN  t # <<>> /\ t[Len(t)] = "{" /\ HeaderAtEnd(SubSeq(t, 1, Len(t) - 1))

(***************************************************************************)
(* The synthetic prologue and the unwrap transforms (dealFun)              *)
(***************************************************************************)
MarkerName ==
    <<"$", "_", "_", "p", "c", "f", "_", "_", "s", "p", "l", "i", "t", "e", "r">>
Prologue == SubSeq(PhpTag, 1, 5) \o <<"\n">> \o MarkerName \o <<"=", "0", ";", "\n">>
IfOne == <<"i", "f", "(", "1", ")">>

\* the least index >= p of s that holds no white space (Len(s) + 1 if none)
SkipWs(s, p) ==
    LET rest == {i \in p..Len(s) : s[i] \notin Whitespace}
    IN  IF rest = {} THEN Len(s) + 1 ELSE CHOOSE i \in rest : \A j \in rest : i <= j

At(s, p) == IF p >= 1 /\ p <= Len(s) THEN s[p] ELSE ""

\* \$__pcf__spliter\s*=\s*0; matched at index k: the index after it, or 0
MarkerEnd(s, k) ==
    LET p1 == SkipWs(s, k + Len(MarkerName))
        p2 == SkipWs(s, p1 + 1)
    IN  IF /\ k + Len(MarkerName) - 1 <= Len(s)
           /\ SubSeq(s, k, k + Len(MarkerName) - 1) = MarkerName
           /\ At(s, p1) = "=" /\ At(s, p2) = "0" /\ At(s, p2 + 1) = ";"
        THEN p2 + 2 ELSE 0

\* the same under the /i flag of line 296
MarkerEndNoCase(s, k) == MarkerEnd(Lower(s), k)

\* fixed.replace(/^<\?php[\s\S]+?\$__pcf__spliter\s*=\s*0;\r?\n/, '')
StripPrologue(fixed) ==
    LET after(k) == LET e == MarkerEnd(fixed, k)
                    IN  IF e = 0 THEN 0
                        ELSE IF At(fixed, e) = "\n" THEN e + 1
                        ELSE IF At(fixed, e) = "\r" /\ At(fixed, e + 1) = "\n" THEN e + 2
                        ELSE 0
        hits == {k \in 7..Len(fixed) : after(k) > 0}
    IN  IF StartsWith(fixed, SubSeq(PhpTag, 1, 5)) /\ hits # {}
        THEN SubSeq(fixed, after(CHOOSE k \in hits : \A j \in hits : k <= j), Len(fixed))
        ELSE fixed

\* the dealFun of lines 277 and 346
DealPlain(fixed) == TrimEnd(StripPrologue(fixed))

\* fixed.match(/^<\?php[\s\S]+?\$__pcf__spliter\s*=\s*0;\s+?if\s*\(\s*1\s*\)\s*
\*             (\{[\s\S]+?\})\s*$/i): the index of the group's "{", or 0
WrapBrace(fixed, k) ==
    LET e == MarkerEndNoCase(fixed, k)
        p1 == SkipWs(fixed, e)
        p2 == SkipWs(fixed, p1 + 2)
        p3 == SkipWs(fixed, p2 + 1)
        p4 == SkipWs(fixed, p3 + 1)
        p5 == SkipWs(fixed, p4 + 1)
        t == TrimEnd(fixed)
    IN  IF /\ e > 0 /\ p1 > e
           /\ LowerCase(At(fixed, p1)) = "i" /\ LowerCase(At(fixed, p1 + 1)) = "f"
           /\ At(fixed, p2) = "(" /\ At(fixed, p3) = "1" /\ At(fixed, p4) = ")"
           /\ At(fixed, p5) = "{"
           /\ Len(t) >= p5 + 2 /\ t[Len(t)] = "}"
        THEN p5 ELSE 0

\* the dealFun of lines 295-303: the wrapped block, or '' when nothing matches
DealWrapped(fixed) ==
    LET hits == {k \in 7..Len(fixed) : WrapBrace(fixed, k) > 0}
    IN  IF StartsWith(Lower(fixed), SubSeq(PhpTag, 1, 5)) /\ hits # {}
        THEN SubSeq(fixed, WrapBrace(fixed, CHOOSE k \in hits : \A j \in hits : k <= j),
                    Len(TrimEnd(fixed)))
        ELSE <<>>

dealFun(wrap, fixed) == IF wrap THEN DealWrapped(fixed) ELSE DealPlain(fixed)

(***************************************************************************)
(* The change-event handler and the two triggers                           *)
(***************************************************************************)
MaxKeys == 2

Keys == {<<"}">>, <<";">>, <<"a">>, <<" ", "}">>, <<"}", ";">>, <<>>}

\* the two keys that fire a trigger
MixKeys == {<<"}">>, <<";">>}

\* the calls made plus the bracket triggers that may still call format()
Slots ==
    Len(calls) + Cardinality({t \in 1..Len(events) : events[t].phase \in {"jump", "undo"}})

\* line 514 with the flag test dropped
TriggerGateAlt(lang, running, excluded) == lang = "php" /\ ~excluded

\* lines 514-517: the tests before either heuristic is tried
TriggerGate(lang, running, excluded) == lang = "php" /\ running = FALSE /\ ~excluded

\* lines 250-255
BracketFires(key) == IsBracketKey(key)

\* lines 334-344, for the text of the line under the cursor
SemicolonFires(key, lineText) == key = <<";">> /\ Len(lineText) >= 5

\* what one change event is, and what became of it
NewEvent(evDoc, key, lineText, kind, originalStart) ==
    [doc |-> evDoc, key |-> key, lang |-> DocOf(evDoc).languageId, running |-> isRunning,
     excluded |-> isExcluded(cfg, evDoc),
     bracketOn |-> cfg.autoFixByBracket, semicolonOn |-> cfg.autoFixBySemicolon,
     lineLen |-> Len(lineText),
     kind |-> kind,
     phase |-> CASE kind = "bracket" -> "jump"
                 [] kind = "semicolon" -> "formatting"
                 [] OTHER -> "none",
     originalStart |-> originalStart, originalPos |-> [line |-> 0, ch |-> 0],
     preJump |-> 0, landed |-> 0, nextChar |-> <<>>,
     start |-> 0, startPos |-> [line |-> 0, ch |-> 0], wrap |-> FALSE, code |-> Prologue,
     rangeStart |-> 0, rangeEnd |-> 0,
     rangeFrom |-> [line |-> 0, ch |-> 0], rangeTo |-> [line |-> 0, ch |-> 0],
     originalText |-> <<>>,
     call |-> 0, undos |-> 0, newText |-> <<>>, edit |-> "none"]

\* the onDidChangeTextDocument handler, lines 513-526, for a change of
\* document evDoc whose first content change has the text key, with
\* doAutoFixByBracket up to line 260 and the whole of doAutoFixBySemicolon's
\* synchronous part.  The handler tests event.document (lines 514, 516); the
\* triggers work on window.activeTextEditor (lines 256, 340).  When the
\* change is in the active document the text went in at the cursor.  The
\* selection the handler reads (line 259) is the host's last report of it:
\* with the typed text counted (seen) or not yet.
OnDidChange(evDoc, key, seen, writeOk) ==
    /\ micro = Idle
    /\ Len(events) < MaxKeys
    /\ key \in Keys
    /\ LET own == evDoc = active
           b1 == IF own
                 THEN SubSeq(buf, 1, cursor) \o key \o SubSeq(buf, cursor + 1, Len(buf))
                 ELSE buf
           c1 == IF own THEN cursor + Len(key) ELSE cursor
           lineText == LineText(b1, c1)
           gate == TriggerGate(DocOf(evDoc).languageId, isRunning,
                               isExcluded(cfg, evDoc))
           bracket == gate /\ cfg.autoFixByBracket /\ BracketFires(key)
           semicolon == gate /\ cfg.autoFixBySemicolon /\ SemicolonFires(key, lineText)
           t == Len(events) + 1
           selection == IF seen THEN c1 ELSE cursor
       IN  /\ (bracket \/ semicolon) => Slots < MaxCalls
           /\ buf' = b1
           /\ cursor' = c1
           /\ cursorStack' = IF own THEN <<>> ELSE cursorStack
           /\ IF bracket
              THEN /\ events' = Append(events,
                          [NewEvent(evDoc, key, lineText, "bracket", selection) EXCEPT
                               !.originalPos = PosOf(b1, selection)])
                   /\ hostQ' = Append(hostQ, [cmd |-> "jump", t |-> t, c |-> 0])
                   /\ writeOk
                   /\ UNCHANGED <<isRunning, calls, tmp>>
              ELSE IF semicolon
              THEN /\ events' = Append(events,
                          [NewEvent(evDoc, key, lineText, "semicolon", c1) EXCEPT
                               !.rangeStart = LineStart(b1, c1),
                               !.rangeEnd = LineEnd(b1, c1),
                               !.rangeFrom = PosOf(b1, LineStart(b1, c1)),
                               !.rangeTo = PosOf(b1, LineEnd(b1, c1)),
                               !.originalText = Prologue \o lineText,
                               !.call = Len(calls) + 1])
                   /\ FormatEntry(Prologue \o lineText, active, FALSE, TRUE,
                                  "semicolon", writeOk)
                   /\ seen
                   /\ UNCHANGED hostQ
              ELSE /\ events' = Append(events, NewEvent(evDoc, key, lineText, "none", c1))
                   /\ writeOk /\ seen
                   /\ UNCHANGED <<isRunning, calls, tmp, hostQ>>
    /\ UNCHANGED <<micro, cfgVars, argVars, active>>

\* the user types key at the cursor of the active document and the host
\* delivers the change event
TypeKey(key, seen, writeOk) == OnDidChange(active, key, seen, writeOk)

\* a document that is not the one of the active editor changes (another
\* editor group, a refactoring, another extension) and the host delivers the
\* change event
ChangeElsewhere(evDoc, key, writeOk) ==
    /\ evDoc \in Docs \ {active}
    /\ OnDidChange(evDoc, key, TRUE, writeOk)

\* line 269: jumpToBracket went to a wrong bracket
WrongMatch(offsetStart0, offsetStart1, nextChar) ==
    offsetStart0 - offsetStart1 < 3 \/ nextChar # <<"{">>

\* lines 261-305, the callback of jumpToBracket once the cursor is at landing:
\* what it does next, where the range starts, and the text put before it
JumpPlan(b, originalStart, landing) ==
    LET lt == LineText(b, landing)
        ls == LineStart(b, landing)
        plan(next, start, wrap) ==
            [next |-> next, start |-> start, wrap |-> wrap,
             code |-> IF wrap THEN Prologue \o Indent(lt) \o IfOne ELSE Prologue]
    IN  IF landing = originalStart THEN plan("stop", landing, FALSE)
        ELSE IF WrongMatch(originalStart, landing, NextChar(b, landing))
        THEN plan("abort", landing, FALSE)
        ELSE IF IsBraceOnly(lt)
        THEN IF LineNumber(b, landing) = 0 THEN plan("throw", landing, FALSE)
             ELSE IF HeaderAtEnd(LineText(b, ls - 1))
             THEN plan("format", LineStart(b, ls - 1), FALSE)
             ELSE plan("format", landing, TRUE)
        ELSE IF HeaderBeforeBrace(lt) THEN plan("format", ls, FALSE)
        ELSE plan("format", landing, TRUE)

\* the host runs editor.action.jumpToBracket, the cursor lands at landing, and
\* the callback of line 260 runs
HostJump(landing) ==
    /\ micro = Idle
    /\ hostQ # <<>> /\ Head(hostQ).cmd = "jump"
    /\ landing \in 0..Len(buf)
    /\ LET t == Head(hostQ).t
           offsetStart0 == OffsetAt(buf, events[t].originalPos)
           plan == JumpPlan(buf, offsetStart0, landing)
       IN  /\ cursor' = landing
           /\ cursorStack' = IF landing # cursor THEN Append(cursorStack, cursor)
                             ELSE cursorStack
           /\ events' = [events EXCEPT
                  ![t].originalStart = offsetStart0,
                  ![t].preJump = cursor,
                  ![t].landed = landing,
                  ![t].nextChar = NextChar(buf, landing),
                  ![t].start = plan.start,
                  ![t].startPos = PosOf(buf, plan.start),
                  ![t].wrap = plan.wrap,
                  ![t].code = plan.code,
                  ![t].undos = IF plan.next \in {"abort", "format"} THEN 1 ELSE 0,
                  ![t].phase = CASE plan.next = "stop" -> "stopped"
                                 [] plan.next = "abort" -> "aborting"
                                 [] plan.next = "throw" -> "threw"
                                 [] OTHER -> "undo"]
           /\ hostQ' = IF plan.next \in {"abort", "format"}
                       THEN Append(Tail(hostQ), [cmd |-> "undo", t |-> t, c |-> 0])
                       ELSE Tail(hostQ)
    /\ UNCHANGED <<isRunning, calls, tmp, micro, cfgVars, argVars, active, buf>>

\* the host runs cursorUndo; for a trigger that goes on, the callback of line
\* 306 runs and calls format()
HostUndo(writeOk) ==
    /\ micro = Idle
    /\ hostQ # <<>> /\ Head(hostQ).cmd = "undo"
    /\ LET t == Head(hostQ).t
           back == IF cursorStack = <<>> THEN cursor ELSE cursorStack[Len(cursorStack)]
           endPos == PosOf(buf, back)
           swap == PosBefore(endPos, events[t].startPos)
           fromPos == IF swap THEN endPos ELSE events[t].startPos
           toPos == IF swap THEN events[t].startPos ELSE endPos
           from == OffsetAt(buf, fromPos)
           to == OffsetAt(buf, toPos)
           originalText == events[t].code \o SubSeq(buf, from + 1, to)
       IN  /\ cursor' = back
           /\ cursorStack' = IF cursorStack = <<>> THEN <<>>
                             ELSE SubSeq(cursorStack, 1, Len(cursorStack) - 1)
           /\ hostQ' = Tail(hostQ)
           /\ IF events[t].phase = "aborting"
              THEN /\ events' = [events EXCEPT ![t].phase = "stopped"]
                   /\ writeOk
                   /\ UNCHANGED <<isRunning, calls, tmp>>
              ELSE /\ events' = [events EXCEPT
                          ![t].phase = "formatting",
                          ![t].rangeStart = from, ![t].rangeEnd = to,
                          ![t].rangeFrom = fromPos, ![t].rangeTo = toPos,
                          ![t].originalText = originalText,
                          ![t].call = Len(calls) + 1]
                   /\ FormatEntry(originalText, active, FALSE, TRUE, "bracket", writeOk)
    /\ UNCHANGED <<micro, cfgVars, argVars, active, buf>>

\* lines 314 and 353 with the comparison dropped
TextChangedAlt(wrap, text, originalText) == TRUE

\* lines 313-314 and 352-353: text = dealFun(text), then
\* text != dealFun(originalText)
TextChanged(wrap, text, originalText) ==
    dealFun(wrap, text) # dealFun(wrap, originalText)

\* the trigger whose format() call is c
TriggerOf(c) == CHOOSE t \in 1..Len(events) : events[t].call = c

\* lines 312-325 and 351-364: the success handler of a trigger's format()
TriggerThenJob ==
    /\ micro.jobs # <<>> /\ Head(micro.jobs) = "callerThen"
    /\ calls[micro.c].origin \in {"bracket", "semicolon"}
    /\ LET t == TriggerOf(micro.c)
           text == dealFun(events[t].wrap, calls[micro.c].value)
           changed == TextChanged(events[t].wrap, calls[micro.c].value,
                                  events[t].originalText)
       IN  /\ events' = [events EXCEPT
                  ![t].newText = text,
                  ![t].edit = IF changed THEN "pending" ELSE "none",
                  ![t].phase = IF changed THEN "editing" ELSE "done"]
           /\ hostQ' = IF changed THEN Append(hostQ, [cmd |-> "edit", t |-> t, c |-> 0]) ELSE hostQ
           /\ calls' = [calls EXCEPT ![micro.c].result = "handled"]
    /\ micro' = Finish(micro.c, Tail(micro.jobs))
    /\ UNCHANGED <<isRunning, tmp, cfgVars, argVars, active, buf, cursor, cursorStack>>

\* the host applies builder.replace(range, text), the range's positions
\* resolved against the document as it is now; the replaced text holds a
\* statement or a block, so the change event it raises fires no trigger
\* (lines 315-318, 354-357); the callback of the edit then sends
\* cancelSelection (lines 319-323, 358-362: an editor always has a selection)
HostEdit ==
    /\ micro = Idle
    /\ hostQ # <<>> /\ Head(hostQ).cmd = "edit" /\ Head(hostQ).t # 0
    /\ LET t == Head(hostQ).t
           from == OffsetAt(buf, events[t].rangeFrom)
           to == OffsetAt(buf, events[t].rangeTo)
           text == events[t].newText
       IN  /\ buf' = SubSeq(buf, 1, from) \o text \o SubSeq(buf, to + 1, Len(buf))
           /\ cursor' = IF cursor >= to THEN cursor - (to - from) + Len(text)
                        ELSE IF cursor > from THEN from + Len(text)
                        ELSE cursor
           /\ cursorStack' = <<>>
           /\ events' = [events EXCEPT ![t].edit = "applied", ![t].phase = "done"]
           /\ hostQ' = Append(Tail(hostQ), [cmd |-> "cancelSelection", t |-> t, c |-> 0])
    /\ UNCHANGED <<isRunning, calls, tmp, micro, cfgVars, argVars, active>>

\* the host runs the cancelSelection a trigger sent after its edit (lines
\* 319-323, 358-362); the model's selection is a cursor without extent
HostCancelSelection ==
    /\ micro = Idle
    /\ hostQ # <<>> /\ Head(hostQ).cmd = "cancelSelection"
    /\ hostQ' = Tail(hostQ)
    /\ UNCHANGED <<cfgVars, argVars, engineVars, active, buf, cursor, cursorStack,
                   events>>

\* the host applies eb.replace(tes[0].range, tes[0].newText) of the
\* php-cs-fixer.fix command: the range went from the start of the document
\* to the end of its last line when formattingProvider was called (lines
\* 383-384), and is resolved against the document as it is now
HostDocEdit ==
    /\ micro = Idle
    /\ hostQ # <<>> /\ Head(hostQ).cmd = "edit" /\ Head(hostQ).t = 0
    /\ LET r == calls[Head(hostQ).c]
           to == OffsetAt(buf, PosOf(r.text, Len(r.text)))
       IN  /\ buf' = r.value \o SubSeq(buf, to + 1, Len(buf))
           /\ cursor' = IF cursor >= to THEN cursor - to + Len(r.value)
                        ELSE IF cursor > 0 THEN Len(r.value)
                        ELSE cursor
    /\ cursorStack' = <<>>
    /\ hostQ' = Tail(hostQ)
    /\ UNCHANGED <<isRunning, calls, tmp, micro, cfgVars, argVars, active, events>>

(***************************************************************************)
(* Settings, files on disk, and direct getArgs requests                    *)
(***************************************************************************)
ExeDirect == <<"p", "c", "f">>
RulesDefault == <<"@", "P">>
GlobV == <<"/", "v", "/">>
GlobU == <<"u">>

\* a configuration store: the values config.get reads
BaseStore ==
    [onsave |-> FALSE, autoFixByBracket |-> TRUE, autoFixBySemicolon |-> FALSE,
     platform |-> "posix", executablePath |-> ExeDirect, executablePathWindows |-> <<>>,
     phpExe |-> None,
     rules |-> [obj |-> FALSE, str |-> RulesDefault],
     config |-> <<>>, allowRisky |-> FALSE, pathMode |-> <<"i">>,
     exclude |-> {}, formatOnSave |-> FALSE]

\* the stores the engine is run under
Stores ==
    {BaseStore,
     [BaseStore EXCEPT !.autoFixByBracket = FALSE, !.autoFixBySemicolon = TRUE,
                       !.onsave = TRUE, !.exclude = {GlobV, GlobU}]}

ConfigSamples ==
    {<<>>, <<"a">>, <<"a", ";", "b">>, <<"a", ";", ";", "/", "x">>,
     <<"/", "x", ";", "a">>, <<"~", "/", "h", ";", "b">>, <<";">>}

\* the stores getArgs is exercised under
ArgStores ==
    {[BaseStore EXCEPT !.config = c, !.rules = r, !.allowRisky = k,
                       !.executablePath = e] :
        c \in ConfigSamples,
        r \in {[obj |-> FALSE, str |-> RulesDefault], [obj |-> FALSE, str |-> <<>>],
               [obj |-> TRUE, str |-> <<"{", "}">>]},
        k \in {FALSE},
        e \in {ExeDirect, BundledPhar}}

DiskUniverse ==
    {Workspace \o VscodeDir \o <<"a">>, Workspace \o <<"/", "a">>,
     Workspace \o VscodeDir \o <<"b">>, Workspace \o <<"/", "b">>,
     <<"/", "x">>, HomeDir \o <<"/", "h">>}

NoReq == [doc |-> "", filePath |-> None]

\* the documents getArgs is asked about: those edited, and a file in a
\* directory beside the temp directory whose name starts like it
ArgDocs == Docs \cup {"y"}

\* the stores the settings are changed among: a direct executable, an
\* archive behind an interpreter word, the bundled archive with a configured
\* interpreter, and on a Windows host the override set and not set
SettingsStores ==
    {BaseStore,
     [BaseStore EXCEPT !.executablePath = <<"P", "h", "p", "7", " ", "/", "x">> \o DotPhar],
     [BaseStore EXCEPT !.executablePath = BundledPhar, !.phpExe = <<"/", "u", "p">>],
     [BaseStore EXCEPT !.platform = "win32",
                       !.executablePathWindows = <<"w", ".", "b", "a", "t">>],
     [BaseStore EXCEPT !.platform = "win32"]}

\* the user changes the settings, each change after the host has delivered
\* the notification of the one before; the host will notify the handler
ChangeSettings(st) ==
    /\ micro = Idle
    /\ ~cfgPending
    /\ st # store
    /\ st.platform = store.platform
    /\ store' = st
    /\ cfgPending' = TRUE
    /\ UNCHANGED <<cfg, disk, argVars, engineVars, editorVars>>

\* the onDidChangeConfiguration handler, lines 530-532
OnDidChangeConfiguration ==
    /\ micro = Idle
    /\ cfgPending
    /\ cfg' = loadSettings(store)
    /\ cfgPending' = FALSE
    /\ argReq' = NoReq /\ argOut' = <<>>
    /\ UNCHANGED <<store, disk, engineVars, editorVars>>

\* the settings change and the handler of lines 530-532 has run
Reconfigure(st) ==
    /\ micro = Idle
    /\ st # store
    /\ store' = st
    /\ cfg' = loadSettings(st)
    /\ cfgPending' = FALSE
    /\ argReq' = NoReq /\ argOut' = <<>>
    /\ UNCHANGED <<disk, engineVars, editorVars>>

\* a config file appears or disappears
TouchDisk(path) ==
    /\ path \in DiskUniverse
    /\ disk' = IF path \in disk THEN disk \ {path} ELSE disk \cup {path}
    /\ argReq' = NoReq /\ argOut' = <<>>
    /\ UNCHANGED <<cfg, store, cfgPending, engineVars, editorVars>>

\* getArgs(uri, filePath) for document d, with the scratch path or without
CallGetArgs(d, scratch) ==
    /\ d \in ArgDocs
    /\ argReq' = [doc |-> d, filePath |-> IF scratch THEN ScratchPath(d, FALSE) ELSE None]
    /\ argOut' = getArgs(cfg, DocOf(d), argReq'.filePath, disk)
    /\ UNCHANGED <<cfgVars, engineVars, editorVars>>

(***************************************************************************)
(* Specifications                                                          *)
(***************************************************************************)
InitEngine ==
    /\ isRunning = FALSE
    /\ calls = <<>>
    /\ tmp = [p \in ScratchPaths |-> NoFile]
    /\ micro = Idle
    /\ active \in Docs
    /\ buf = InitText(active)
    /\ cursor = Len(buf)
    /\ cursorStack = <<>>
    /\ hostQ = <<>>
    /\ events = <<>>
    /\ argReq = NoReq
    /\ argOut = <<>>

\* activation: the constructor's loadSettings() has run
Init ==
    /\ store \in Stores
    /\ cfg = loadSettings(store)
    /\ cfgPending = FALSE
    /\ disk = {}
    /\ InitEngine

\* the process and the promise jobs of the calls in flight
NextEngine ==
    \/ \E c \in CallIds : \E f \in FixOutputs(ScratchOf(calls[c]).content) :
          ProcMutate(c, f)
    \/ \E c \in CallIds, o \in Outcomes : ProcExit(c, o)
    \/ ThenJob
    \/ CatchJob
    \/ FinallyJob
    \/ CallerCatchJob
    \/ \E c \in CallIds : UnlinkDone(c)
    \/ OnDidChangeConfiguration

\* the providers and the commands on the active document
Next ==
    \/ \E via \in {"provider", "onsave", "command"}, w \in BOOLEAN :
          FormattingProvider(via, w)
    \/ \E from \in {0, Len(buf)}, w \in BOOLEAN :
          RangeFormattingProvider(from, Len(buf), w)
    \/ \E f \in {active, "x"} : \E text \in FileTexts(f) : Diff(f, text, TRUE)
    \/ \E f \in {active, "x", FolderTarget} : Fix(f)
    \/ HostDocEdit
    \/ CallerThenJob
    \/ NextEngine

Spec == Init /\ [][Next]_vars

\* the keystroke triggers
\* the ends of the process the triggers tell apart: a manifest that names
\* the file (changed), an empty manifest (unchanged, lines 172-180), JSON
\* without a manifest (the handler throws), a failed run and a process that
\* did not start
KeyOutcomes ==
    {Ok("files1", <<>>), Ok("files0", <<>>), Ok("noFiles", <<>>),
     Failure(1, "", <<>>), SpawnENOENT}

NextKeys ==
    \/ \E key \in Keys, seen, w \in BOOLEAN : TypeKey(key, seen, w)
    \/ \E d \in {"a", "x"}, key \in MixKeys : ChangeElsewhere(d, key, TRUE)
    \/ \E l \in 0..Len(buf) : HostJump(l)
    \/ \E w \in BOOLEAN : HostUndo(w)
    \/ HostEdit
    \/ HostCancelSelection
    \/ TriggerThenJob
    \/ \E c \in CallIds : \E f \in FixOutputs(ScratchOf(calls[c]).content) :
          ProcMutate(c, f)
    \/ \E c \in CallIds, o \in KeyOutcomes : ProcExit(c, o)
    \/ ThenJob
    \/ CatchJob
    \/ FinallyJob
    \/ CallerCatchJob
    \/ \E c \in CallIds : UnlinkDone(c)
    \/ OnDidChangeConfiguration

SpecKeys == Init /\ [][NextKeys]_vars

\* the providers and the triggers together, with the ends of the process
\* that tell the calls apart: a successful run and a failed one
MixOutcomes == {Ok("files1", <<>>), Failure(1, "", <<>>)}

\* every entry point is switched on and two exclusion patterns are set
MixStore ==
    [BaseStore EXCEPT !.autoFixBySemicolon = TRUE, !.onsave = TRUE,
                      !.exclude = {GlobV, GlobU}]

InitMix ==
    /\ store = MixStore
    /\ cfg = loadSettings(store)
    /\ cfgPending = FALSE
    /\ disk = {}
    /\ InitEngine
    /\ active \in {"a", "x"}

NextMix ==
    \/ TypeKey(<<";">>, TRUE, TRUE)
    \/ \E d \in {"a", "x"} : ChangeElsewhere(d, <<"}">>, TRUE)
    \/ \E l \in {2, cursor} : HostJump(l)
    \/ HostUndo(TRUE)
    \/ HostEdit
    \/ HostCancelSelection
    \/ TriggerThenJob
    \/ \E via \in {"provider", "onsave"} : FormattingProvider(via, TRUE)
    \/ \E from \in {0, Len(buf)} : RangeFormattingProvider(from, Len(buf), TRUE)
    \/ CallerThenJob
    \/ \E c \in CallIds : \E f \in FixOutputs(ScratchOf(calls[c]).content) :
          ProcMutate(c, f)
    \/ \E c \in CallIds, o \in MixOutcomes : ProcExit(c, o)
    \/ ThenJob
    \/ CatchJob
    \/ FinallyJob
    \/ CallerCatchJob
    \/ \E c \in CallIds : UnlinkDone(c)

SpecMix == InitMix /\ [][NextMix]_vars

\* the user puts the cursor somewhere else (a click, an arrow key, Home)
\* between two keystrokes; the host records the move for cursorUndo
MoveCursor(pos) ==
    /\ micro = Idle
    /\ pos \in 0..Len(buf)
    /\ pos # cursor
    /\ cursor' = pos
    /\ cursorStack' = Append(cursorStack, cursor)
    /\ UNCHANGED <<cfgVars, argVars, engineVars, active, buf, hostQ, events>>

\* the keys typed when the cursor may be moved in between
CursorKeys == {<<"}">>, <<";">>, <<"a">>}

\* the triggers with a user who types and also puts the cursor at the start
\* of the document (Ctrl+Home, a click)
NextCursor ==
    \/ \E key \in CursorKeys : TypeKey(key, TRUE, TRUE)
    \/ MoveCursor(0)
    \/ \E l \in 0..Len(buf) : HostJump(l)
    \/ HostUndo(TRUE)
    \/ HostEdit
    \/ HostCancelSelection
    \/ TriggerThenJob
    \/ \E c \in CallIds : \E f \in FixOutputs(ScratchOf(calls[c]).content) :
          ProcMutate(c, f)
    \/ \E c \in CallIds, o \in MixOutcomes : ProcExit(c, o)
    \/ ThenJob
    \/ CatchJob
    \/ FinallyJob
    \/ CallerCatchJob
    \/ \E c \in CallIds : UnlinkDone(c)

SpecCursor == Init /\ [][NextCursor]_vars

\* the settings: changes by the user and by errorTip(), and the calls that
\* read them
InitSettings ==
    /\ store \in SettingsStores
    /\ cfg = loadSettings(store)
    /\ cfgPending = FALSE
    /\ disk = {}
    /\ InitEngine
    /\ active = "a"

\* the ends of the process that matter to the settings: a missing
\* executable, a run without changes, a failed run
SettingsOutcomes == {SpawnENOENT, Ok("files0", <<>>), Failure(1, "", <<>>)}

NextSettings ==
    \/ \E st \in SettingsStores : ChangeSettings(st)
    \/ FormattingProvider("provider", TRUE)
    \/ Fix(active)
    \/ \E c \in CallIds, o \in SettingsOutcomes : ProcExit(c, o)
    \/ ThenJob
    \/ CatchJob
    \/ FinallyJob
    \/ CallerThenJob
    \/ CallerCatchJob
    \/ \E c \in CallIds : UnlinkDone(c)
    \/ OnDidChangeConfiguration

SpecSettings == InitSettings /\ [][NextSettings]_vars

\* getArgs under every sampled store, workspace and set of files
InitArgs ==
    /\ store \in ArgStores
    /\ cfg = loadSettings(store)
    /\ cfgPending = FALSE
    /\ disk = {}
    /\ InitEngine
    /\ active = "a"

NextArgs ==
    \/ \E st \in ArgStores : Reconfigure(st)
    \/ \E path \in DiskUniverse : TouchDisk(path)
    \/ \E d \in ArgDocs, scratch \in BOOLEAN : CallGetArgs(d, scratch)

SpecArgs == InitArgs /\ [][NextArgs]_vars

(***************************************************************************)
(* Properties of getArgs (under SpecArgs)                                  *)
(***************************************************************************)
\* the values of the arguments of argOut that carry option opt, by position
ArgsWith(opt) == {i \in 1..Len(argOut) : argOut[i].opt = opt}

\* the config names of the snapshot, and the workspace root of the request
ReqNames == IF Len(cfg.config) > 0 THEN ConfigFiles(cfg.config) ELSE <<>>

ReqRoot == getActiveWorkspacePath(DocOf(argReq.doc))

\* the places of the scan: name i at place k, where an absolute name has the
\* single place 1 and a relative name the places 1 (<root>/.vscode/<name>)
\* and 2 (<root>/<name>) when the document has a workspace root
Places ==
    {pl \in (1..Len(ReqNames)) \X (1..2) :
        IF IsAbsolute(ReqNames[pl[1]]) THEN pl[2] = 1 ELSE ReqRoot # None}

PlacePath(pl) ==
    IF IsAbsolute(ReqNames[pl[1]]) THEN ReqNames[pl[1]]
    ELSE IF pl[2] = 1 THEN ReqRoot \o VscodeDir \o ReqNames[pl[1]]
    ELSE ReqRoot \o Slash \o ReqNames[pl[1]]

PlaceBefore(p, q) == p[1] < q[1] \/ (p[1] = q[1] /\ p[2] < q[2])

CandidateOnDisk == \E pl \in Places : PlacePath(pl) \in disk

\* C7 as stated: getArgs emits exactly one of --config and --rules, --config
\* if and only if a candidate config file exists on disk, otherwise --rules
C7_ExactlyOne ==
    argReq # NoReq =>
        /\ Cardinality(ArgsWith("--config=")) = (IF CandidateOnDisk THEN 1 ELSE 0)
        /\ Cardinality(ArgsWith("--rules=")) = (IF CandidateOnDisk THEN 0 ELSE 1)

\* C7, amended: getArgs emits --config (once) if and only if a candidate
\* config file exists on disk; otherwise it emits --rules (once) if and only
\* if the configured rule set is a non-empty string; it never emits both
C7_ConfigOrRules ==
    argReq # NoReq =>
        /\ Cardinality(ArgsWith("--config=")) = (IF CandidateOnDisk THEN 1 ELSE 0)
        /\ Cardinality(ArgsWith("--rules=")) =
               (IF ~CandidateOnDisk /\ cfg.rules # <<>> THEN 1 ELSE 0)
        /\ ~(ArgsWith("--config=") # {} /\ ArgsWith("--rules=") # {})
        /\ \A i \in ArgsWith("--rules=") : argOut[i].val = cfg.rules

\* a request answered with --config although a rule set is configured, and a
\* request answered with --rules because no candidate exists
C7_Witness ==
    /\ argReq # NoReq
    /\ \/ CandidateOnDisk /\ cfg.rules # <<>> /\ ArgsWith("--config=") # {}
       \/ ~CandidateOnDisk /\ Len(cfg.config) > 0 /\ ArgsWith("--rules=") # {}

\* C8: the --config argument names the first existing path of the scan order
\* (names in list order; a relative name as <root>/.vscode/<name> then
\* <root>/<name>; an absolute name as it is, at its place in the list), and
\* there is no --config argument when no path of the scan exists
C8_FirstCandidateWins ==
    argReq # NoReq =>
        {argOut[i].val : i \in ArgsWith("--config=")} =
            {PlacePath(pl) : pl \in {q \in Places :
                /\ PlacePath(q) \in disk
                /\ \A r \in Places : PlaceBefore(r, q) => PlacePath(r) \notin disk}}

\* a request whose chosen path is followed in the scan by another existing
\* path, of a different name, that is not used
C8_Witness ==
    /\ argReq # NoReq
    /\ \E i \in ArgsWith("--config=") : \E p, q \in Places :
          /\ PlacePath(p) = argOut[i].val
          /\ PlaceBefore(p, q) /\ p[1] # q[1]
          /\ PlacePath(q) \in disk /\ PlacePath(q) # PlacePath(p)

(***************************************************************************)
(* Properties of the triggers (under SpecKeys)                             *)
(***************************************************************************)
EventIds == 1..Len(events)

\* the events whose trigger called format() with call c
EventsOfCall(c) == {t \in EventIds : events[t].call = c}

\* C2: a trigger starts only for a change event on a php document that
\* arrived while the flag was false, whose document is not excluded, whose
\* heuristic is enabled and whose inserted text matches the heuristic's
\* pattern (white space then one closing brace; exactly ";" on a line of at
\* least 5 characters); every partial format belongs to such an event, and
\* every other event starts no invocation, no host command and no edit
C2_TriggerGating ==
    /\ \A t \in EventIds :
          LET e == events[t]
              bracketKey == /\ Len(e.key) >= 1 /\ e.key[Len(e.key)] = "}"
                            /\ \A i \in 1..(Len(e.key) - 1) :
                                  e.key[i] \in {" ", "\n", "\t", "\r"}
              gate == e.lang = "php" /\ ~e.running /\ ~e.excluded
          IN  /\ e.kind = "bracket" => gate /\ e.bracketOn /\ bracketKey
              /\ e.kind = "semicolon" =>
                    gate /\ e.semicolonOn /\ e.key = <<";">> /\ e.lineLen >= 5
              /\ e.kind = "none" =>
                    /\ e.call = 0 /\ e.edit = "none" /\ e.phase = "none"
                    /\ \A i \in 1..Len(hostQ) : hostQ[i].t # t
    /\ \A c \in CallIds :
          calls[c].isPartial =>
              \E t \in EventIds : events[t].call = c /\ events[t].kind # "none"

\* a matching keystroke that arrived while the flag was true and started
\* nothing, next to a trigger that did start a partial format
C2_Witness ==
    /\ \E t \in EventIds :
          /\ events[t].kind = "none" /\ events[t].running
          /\ events[t].lang = "php" /\ ~events[t].excluded
          /\ \/ events[t].key = <<";">> /\ events[t].semicolonOn /\ events[t].lineLen >= 5
             \/ events[t].key = <<"}">> /\ events[t].bracketOn
    /\ \E c \in CallIds : calls[c].isPartial /\ calls[c].starts = 1

\* C5 as stated: a partial format() call shows no status and no dialog,
\* whatever its outcome
C5_PartialIsSilent ==
    \A c \in CallIds : calls[c].isPartial => calls[c].shown = <<>> /\ ~calls[c].dialog

\* the landing of trigger t's jump is a wrong match: fewer than 3 offsets
\* before the original position, or not followed by an opening brace
LandedWrong(t) ==
    /\ events[t].kind = "bracket"
    /\ events[t].phase # "jump"
    /\ events[t].landed # events[t].originalStart
    /\ \/ events[t].originalStart - events[t].landed < 3
       \/ events[t].nextChar # <<"{">>

\* the host runs the cursorUndo that trigger t sent after a wrong match
UndoneStep(t) ==
    /\ LandedWrong(t)
    /\ events[t].phase = "aborting"
    /\ events'[t].phase = "stopped"

\* C6 as stated: after a wrong match the bracket trigger invokes no format
\* and applies no edit, and its cursorUndo puts the cursor where it was before
\* the jump
C6_WrongMatchAborts ==
    /\ [](\A t \in EventIds :
             LandedWrong(t) =>
                 /\ events[t].call = 0
                 /\ events[t].edit = "none"
                 /\ events[t].phase \in {"aborting", "stopped"}
                 /\ \A c \in CallIds :
                       calls[c].origin = "bracket" => EventsOfCall(c) # {t}
                 /\ \A i \in 1..Len(hostQ) :
                       hostQ[i].t = t => hostQ[i].cmd = "undo")
    /\ [][\A t \in EventIds : UndoneStep(t) => cursor' = events[t].preJump]_vars

(***************************************************************************)
(* Properties of format() and fix() (under Spec)                           *)
(***************************************************************************)
\* call c is outstanding: its process has not ended, or its promise jobs are
\* still to run
Outstanding(c) == calls[c].phase \in {"running", "mutated", "exited"}

\* C1 as stated: the flag is set on entry, and it never remains true once no
\* invocation is outstanding, a call that failed before starting its process
\* (a throwing scratch-file write) included
C1_FlagClearedWhenIdle ==
    (micro = Idle /\ \A c \in CallIds : ~Outstanding(c)) => ~isRunning

\* the non-diff format() calls, and the diff calls, that wrote a scratch file
WroteScratch(c) == calls[c].kind = "format" /\ calls[c].starts = 1

\* the half of C3 about non-diff calls: a non-diff format() call that wrote
\* its scratch file has asked for its deletion by the end of its promise
\* chain, whatever the outcome, and once that deletion is done the file the
\* call wrote is gone
NonDiffDeleted(c) ==
    /\ calls[c].phase = "done" => calls[c].unlink \in {"pending", "done"}
    /\ calls[c].unlink = "done" =>
          ~(tmp[calls[c].path].exists /\ tmp[calls[c].path].writer = c)

\* the half of C3 about diff calls: the engine asks for no deletion on behalf
\* of a diff call, and the scratch file the diff call wrote is never deleted
DiffKept(c) ==
    /\ calls[c].unlink = "none"
    /\ tmp[calls[c].path].exists

\* C3 as stated: the scratch file of every non-diff format() call is deleted
\* whatever the outcome, and the scratch file of a diff call is never
\* deleted by the engine
C3_ScratchDeletion ==
    \A c \in CallIds :
        WroteScratch(c) =>
            IF calls[c].isDiff THEN DiffKept(c) ELSE NonDiffDeleted(c)

\* the caller's success handler of call c is the next job to run
AtCallerThen(c) == micro.c = c /\ micro.jobs # <<>> /\ Head(micro.jobs) = "callerThen"

\* C4 as stated: when a non-diff call whose process reported a changed file
\* has resolved, it resolved with the scratch file's content as it was after
\* the process ended, and the scratch file no longer exists when the caller's
\* success handler runs
C4_ScratchGoneAtResolve ==
    \A c \in CallIds :
        (/\ AtCallerThen(c) /\ calls[c].kind = "format" /\ ~calls[c].isDiff
         /\ calls[c].out.stdout = "files1") =>
            /\ calls[c].settled = "resolved"
            /\ ~tmp[calls[c].path].exists

\* the non-empty lines of a stderr text, counted
StderrLineCount(lines) == Cardinality({i \in 1..Len(lines) : lines[i] # ""})

\* call c is a non-diff format() call whose process ended with exit code 0
\* and an empty list of changed files, and whose then callback has run
NoChangeOutcome(c) ==
    /\ calls[c].kind = "format" /\ ~calls[c].isDiff
    /\ calls[c].out.kind = "ok" /\ calls[c].out.stdout = "files0"
    /\ (calls[c].phase = "done" \/ (micro.c = c /\ Head(micro.jobs) # "then"))

\* C9 as stated: such a call resolves with the input text
C9_NoChangeResolves ==
    \A c \in CallIds :
        NoChangeOutcome(c) => calls[c].settled = "resolved" /\ calls[c].value = calls[c].text

\* C9, amended: such a call resolves with the input text when stderr holds at
\* most one non-empty line, and is rejected when it holds more
C9_NoChangeQuietResolves ==
    \A c \in CallIds :
        NoChangeOutcome(c) =>
            IF StderrLineCount(calls[c].out.stderr) <= 1
            THEN calls[c].settled = "resolved" /\ calls[c].value = calls[c].text
            ELSE calls[c].settled = "rejected"

\* a no-change call with one stderr line and an empty one, resolved with
\* the text it was given
C9_Witness ==
    \E c \in CallIds :
        /\ NoChangeOutcome(c) /\ calls[c].phase = "done"
        /\ Len(calls[c].out.stderr) = 2 /\ StderrLineCount(calls[c].out.stderr) = 1
        /\ calls[c].value = calls[c].text /\ calls[c].text # <<>>
        /\ calls[c].result \in {"noEdits", "edits"}

\* call c is a whole-document format() call whose process ended with a
\* nonzero exit code, and whose promise jobs have all run
FailedWithExitCode(c) ==
    /\ calls[c].kind = "format" /\ ~calls[c].isPartial
    /\ calls[c].out.kind = "error" /\ calls[c].out.exitCode # 0
    /\ calls[c].phase = "done"

\* C10: such a call is rejected and its caller told so, its process was
\* started once, and the last status shown is the one of the exit code: for
\* 16 "Configuration error of the application." whatever stdout and stderr
\* hold (a rule-configuration 32 likewise has its fixed text)
C10_ExitCodeFailure ==
    \A c \in CallIds :
        FailedWithExitCode(c) =>
            /\ calls[c].settled = "rejected"
            /\ calls[c].result = "rejected"
            /\ calls[c].starts = 1
            /\ Len(calls[c].shown) = 3
            /\ calls[c].shown[2] = "failed"
            /\ calls[c].out.exitCode = 16 =>
                  calls[c].shown[3] = "Configuration error of the application."
            /\ calls[c].out.exitCode = 32 =>
                  calls[c].shown[3] = "Configuration error of a Fixer."

\* a call that failed with exit code 16 and text on stdout and stderr
C10_Witness ==
    \E c \in CallIds :
        /\ FailedWithExitCode(c)
        /\ calls[c].out.exitCode = 16
        /\ calls[c].out.stdout # "" /\ calls[c].out.stderr # <<>>
        /\ calls[c].shown[3] = "Configuration error of the application."

(***************************************************************************)
(* Properties of the settings (under SpecSettings)                         *)
(***************************************************************************)
\* the bundled archive as loadSettings resolves it
ResolvedArchive == ExtensionDir \o <<"/", "p">> \o DotPhar

\* some call ended with the executable missing, and its promise jobs have run
MissingExecutableSeen ==
    \E c \in CallIds : calls[c].out = SpawnENOENT /\ calls[c].phase = "done"

\* C11 as stated: a format() call whose executable is missing is rejected and
\* the stored executablePath is the bundled archive when its catch callback
\* has run; and with that value stored and the change notification
\* processed, the snapshot has the archive active behind the interpreter
C11_ArchiveFallback ==
    /\ \A c \in CallIds :
          (calls[c].out = SpawnENOENT /\ micro.c = c /\ Head(micro.jobs) = "finally") =>
              /\ calls[c].kind = "format" => calls[c].settled = "rejected"
              /\ store.executablePath = BundledPhar
    /\ (MissingExecutableSeen /\ store.executablePath = BundledPhar /\ ~cfgPending) =>
          /\ cfg.pharPath = ResolvedArchive
          /\ cfg.executablePath \in {Php, store.phpExe}

(***************************************************************************)
(* Properties of the exclusion patterns                                    *)
(***************************************************************************)
\* the document is a file on disk
OnDisk(d) == DocOf(d).scheme = "file" /\ ~DocOf(d).isUntitled

\* one of the exclusion patterns of the snapshot matches the document's path
PathMatches(d) == \E g \in cfg.exclude : IndexOf(DocOf(d).fsPath, g) > 0

EntryPoints == {"provider", "onsave", "range", "rangeTagged", "bracket", "semicolon"}

\* C12 as stated: for a document on disk whose path matches the exclusion
\* patterns no call was started by the document provider, the range provider,
\* the format-on-save hook or a trigger, and no trigger called format() on it
\* or edited it; a document that is untitled or not a file is never taken
\* for excluded, whatever its path
C12_ExcludedUntouched ==
    /\ \A c \in CallIds :
          calls[c].origin \in EntryPoints =>
              ~(OnDisk(calls[c].doc) /\ PathMatches(calls[c].doc))
    /\ \A t \in 1..Len(events) :
          /\ (OnDisk(active) /\ PathMatches(active)) =>
                 /\ events[t].call = 0
                 /\ events[t].edit = "none"
          /\ ~OnDisk(events[t].doc) => ~events[t].excluded
    /\ \A d \in Docs : ~OnDisk(d) => ~isExcluded(cfg, d)

(***************************************************************************)
(* Properties of the running flag and of overlapping calls                 *)
(***************************************************************************)
\* the calls whose process was started and whose promise has not run to its end
OutstandingCalls == {c \in CallIds : calls[c].starts = 1 /\ Outstanding(c)}

\* C13 as stated: while the running flag is set, at most one invocation
\* started by format() or fix() is outstanding
C13_FlagOwnsOneCall ==
    isRunning => Cardinality(OutstandingCalls) <= 1

\* C14 as stated: two partial format() calls are never outstanding at the
\* same time, so the shared scratch file is written by a second one only when
\* the first has completed
C14_PartialCallsSerialized ==
    Cardinality({c \in OutstandingCalls : calls[c].isPartial}) <= 1

(***************************************************************************)
(* Properties of the triggers' edits                                       *)
(***************************************************************************)
\* trigger t wrapped its text in if(1) and its format() call resolved
WrappedResolved(t) ==
    /\ events[t].kind = "bracket" /\ events[t].wrap
    /\ events[t].call \in CallIds
    /\ calls[events[t].call].settled = "resolved"
    /\ calls[events[t].call].result = "handled"

\* C15 as stated: when the wrapper pattern does not match the formatter's
\* output, the fix is dropped: no replace is queued or applied
C15_MismatchDiscarded ==
    \A t \in 1..Len(events) :
        (WrappedResolved(t) /\ DealWrapped(calls[events[t].call].value) = <<>>) =>
            events[t].edit = "none"

\* trigger t called format() and the call is settled and handled
TriggerSettled(t) ==
    /\ events[t].call \in CallIds
    /\ calls[events[t].call].result \in {"handled", "rejected"}

\* the text of trigger t's call came back different once unwrapped
UnwrappedDiffers(t) ==
    LET r == calls[events[t].call]
        unwrap(x) == IF events[t].wrap THEN DealWrapped(x) ELSE DealPlain(x)
    IN  r.settled = "resolved" /\ unwrap(r.value) # unwrap(events[t].originalText)

\* a step of the host that applies the edit of a trigger
EditStep ==
    /\ hostQ # <<>> /\ Head(hostQ).cmd = "edit" /\ Head(hostQ).t # 0
    /\ events[Head(hostQ).t].edit = "pending"
    /\ events'[Head(hostQ).t].edit = "applied"

\* the document changes only by a keystroke or by the edit of a trigger whose
\* text came back different
DocumentStep ==
    buf' # buf =>
        \/ Len(events') > Len(events)
        \/ EditStep /\ UnwrappedDiffers(Head(hostQ).t)

\* the selection changes only by these, by jumpToBracket and by cursorUndo
SelectionStep ==
    cursor' # cursor =>
        \/ Len(events') > Len(events)
        \/ EditStep /\ UnwrappedDiffers(Head(hostQ).t)
        \/ hostQ # <<>> /\ Head(hostQ).cmd \in {"jump", "undo"}

\* C16: a trigger queues or applies an edit only when its partial format()
\* resolved with a text that differs, once unwrapped, from the unwrapped
\* submitted text; after a result without changes or a rejection the trigger
\* has no edit, and the document changes only by a keystroke or by the edit
\* of such a trigger, the selection only by these and by the jump and its undo
C16_EditOnlyWhenChanged ==
    /\ [](\A t \in 1..Len(events) :
            /\ events[t].edit # "none" => (TriggerSettled(t) /\ UnwrappedDiffers(t))
            /\ (TriggerSettled(t) /\ ~UnwrappedDiffers(t)) =>
                   events[t].edit = "none")
    /\ [][DocumentStep /\ SelectionStep]_vars

\* the formatter reported no change for one trigger (an empty manifest: its
\* call resolved with the submitted text) and that trigger has no edit, while
\* another trigger's text came back changed and its edit was applied
C16_Witness ==
    \E t1, t2 \in 1..Len(events) :
        /\ TriggerSettled(t1) /\ calls[events[t1].call].settled = "resolved"
        /\ calls[events[t1].call].out.kind = "ok"
        /\ calls[events[t1].call].out.stdout = "files0"
        /\ calls[events[t1].call].value = events[t1].originalText
        /\ events[t1].edit = "none"
        /\ TriggerSettled(t2) /\ UnwrappedDiffers(t2)
        /\ events[t2].edit = "applied"

\* one trigger's call was rejected and it has no edit, another's came back
\* changed and its edit was applied
C16_WitnessRejected ==
    \E t1, t2 \in 1..Len(events) :
        /\ TriggerSettled(t1) /\ calls[events[t1].call].settled = "rejected"
        /\ events[t1].edit = "none"
        /\ TriggerSettled(t2) /\ UnwrappedDiffers(t2)
        /\ events[t2].edit = "applied"

(***************************************************************************)
(* Properties of a run that changed no file                                *)
(***************************************************************************)
\* the non-empty lines of the stderr of call c
LoudLines(c) == {i \in 1..Len(calls[c].out.stderr) : calls[c].out.stderr[i] # ""}

\* C17: when the process of a non-diff format() call ended with exit code 0
\* and no changed file, then with more than one non-empty stderr line the
\* promise is rejected, no text is returned and the caller's failure handler
\* is the one that runs; with at most one such line the promise resolves
\* with the submitted text, unchanged
C17_ZeroChangesOutcome ==
    \A c \in CallIds :
        NoChangeOutcome(c) =>
            IF Cardinality(LoudLines(c)) > 1
            THEN /\ calls[c].settled = "rejected"
                 /\ calls[c].value = None
                 /\ calls[c].result \in {"", "rejected"}
                 /\ calls[c].phase = "done" => calls[c].result = "rejected"
            ELSE /\ calls[c].settled = "resolved"
                 /\ calls[c].value = calls[c].text
                 /\ calls[c].result # "rejected"

\* a no-change call with two non-empty stderr lines, rejected to its caller,
\* and beside it one with a single line, resolved
C17_Witness ==
    \E c, d \in CallIds :
        /\ NoChangeOutcome(c) /\ calls[c].phase = "done"
        /\ Cardinality(LoudLines(c)) = 2
        /\ calls[c].settled = "rejected" /\ calls[c].result = "rejected"
        /\ NoChangeOutcome(d) /\ calls[d].phase = "done"
        /\ Cardinality(LoudLines(d)) = 1
        /\ calls[d].settled = "resolved"

(***************************************************************************)
(* Properties of the settings snapshot                                     *)
(***************************************************************************)
\* the stores the settings can hold: the user's and what errorTip() makes of them
KnownStores == SettingsStores \cup {ErrorTipStore(st) : st \in SettingsStores}

\* the executable setting in force, with ${extensionPath} and ~/ substituted
Configured(st) ==
    LET raw == IF st.platform = "win32" /\ st.executablePathWindows # <<>>
               THEN st.executablePathWindows ELSE st.executablePath
    IN  ExpandHome(ReplaceFirst(raw, ExtensionPathToken, ExtensionDir))

Interpreter(st) == IF st.phpExe \in {None, <<>>} THEN Php ELSE st.phpExe

\* snapshot c is in direct mode for store st, or in archive mode
DirectMode(c, st) ==
    /\ c.pharPath = None
    /\ c.executablePath = Configured(st)
    /\ ~EndsWith(Configured(st), DotPhar)

ArchiveMode(c, st) ==
    /\ c.pharPath # None
    /\ EndsWith(c.pharPath, DotPhar) /\ EndsWith(Configured(st), c.pharPath)
    /\ \A i \in 1..Len(c.pharPath) : c.pharPath[i] # " "
    /\ c.executablePath = Interpreter(st)

OneMode(c, st) == DirectMode(c, st) # ArchiveMode(c, st)

\* the executable and the arguments of call c are those of snapshot c0
RunsUnder(c, c0) ==
    /\ calls[c].exe = c0.executablePath
    /\ IF c0.pharPath = None
       THEN Head(calls[c].args) = Arg("fix", <<>>)
       ELSE /\ Head(calls[c].args) = Arg("", c0.pharPath)
            /\ calls[c].args[2] = Arg("fix", <<>>)

\* C18: the snapshot is that of one load of one store, in exactly one of the
\* two modes, and it is the load of the current store once the change
\* notification has been delivered; every call that started a process ran
\* with the executable and the archive argument of one such snapshot
C18_OneModePerLoad ==
    /\ \E st \in KnownStores : cfg = loadSettings(st) /\ OneMode(cfg, st)
    /\ ~cfgPending => (cfg = loadSettings(store) /\ OneMode(cfg, store))
    /\ \A c \in CallIds :
          calls[c].starts = 1 =>
              \E st \in KnownStores :
                  OneMode(loadSettings(st), st) /\ RunsUnder(c, loadSettings(st))

\* a reload took the snapshot from direct mode to archive mode between two
\* calls: the first ran the direct executable, the second the interpreter
\* with the archive
C18_Witness ==
    /\ ~cfgPending /\ ArchiveMode(cfg, store)
    /\ \E c, d \in CallIds :
          /\ c < d
          /\ calls[c].starts = 1 /\ Head(calls[c].args) = Arg("fix", <<>>)
          /\ calls[d].starts = 1 /\ Head(calls[d].args) = Arg("", cfg.pharPath)
          /\ calls[d].exe = cfg.executablePath

(***************************************************************************)
(* Properties of the path-mode argument                                    *)
(***************************************************************************)
\* the file a getArgs request names: the path handed in, or the document's own
Target == IF argReq.filePath # None THEN argReq.filePath ELSE DocOf(argReq.doc).fsPath

\* the path lies in the temp directory or below it
UnderTmpDir(path) == StartsWith(path, TmpDir \o Slash)

Override == Arg("--path-mode=override", <<>>)

\* C19 as stated: the last argument is the target file and the one before it
\* is --path-mode=override when the target lies under the temp directory, and
\* --path-mode= with the configured value otherwise
C19_PathModeByLocation ==
    argOut # <<>> =>
        /\ argOut[Len(argOut)] = Arg("", Target)
        /\ argOut[Len(argOut) - 1] =
               IF UnderTmpDir(Target) THEN Override ELSE Arg("--path-mode=", cfg.pathMode)

\* the same with the test the code makes: the target's path starts with the
\* characters of the temp directory's path
C19_PathModeByPrefix ==
    argOut # <<>> =>
        /\ argOut[Len(argOut)] = Arg("", Target)
        /\ argOut[Len(argOut) - 1] =
               IF StartsWith(Target, TmpDir) THEN Override
               ELSE Arg("--path-mode=", cfg.pathMode)

(***************************************************************************)
(* Properties of the cursor in the bracket trigger                         *)
(***************************************************************************)
\* the callback of jumpToBracket has run for trigger t and the cursor had moved
JumpMoved(t) ==
    /\ events[t].kind = "bracket"
    /\ events[t].phase # "jump"
    /\ events[t].landed # events[t].originalStart

\* C20 as stated: once the callback of jumpToBracket has run with the cursor
\* moved, cursorUndo has been issued exactly once, whatever the landing line
C20_CursorUndoIssued ==
    \A t \in 1..Len(events) : JumpMoved(t) => events[t].undos = 1

(***************************************************************************)
(* Properties of the range a trigger replaces                              *)
(***************************************************************************)
\* the text of the document that trigger t submitted, without the code put
\* before it
SubmittedRangeText(t) ==
    SubSeq(events[t].originalText, Len(events[t].code) + 1, Len(events[t].originalText))

\* the text the range of trigger t holds now
RangeTextNow(t) ==
    SubSeq(buf, OffsetAt(buf, events[t].rangeFrom) + 1,
           OffsetAt(buf, events[t].rangeTo))

\* C21 as stated: when the host is about to apply the replace of a trigger,
\* the range it replaces holds exactly the text that was submitted
C21_RangeStillSubmittedText ==
    (hostQ # <<>> /\ Head(hostQ).cmd = "edit" /\ Head(hostQ).t # 0) =>
        RangeTextNow(Head(hostQ).t) = SubmittedRangeText(Head(hostQ).t)

=============================================================================
